---- MODULE Spec2Model ----
(***************************************************************************)
(* websocketpp/transport/asio/security/tls.hpp                             *)
(*                                                                         *)
(* The TLS socket policy of the asio transport: tls_socket::endpoint holds *)
(* two handlers and copies them onto each tls_socket::connection;          *)
(* a connection binds to the io_service (init_asio), then runs the TLS     *)
(* handshake against a 5000 ms deadline timer (init, handle_init,          *)
(* handle_timeout).  The io_service delivers the two completions one at a  *)
(* time, in either order.                                                  *)
(***************************************************************************)
EXTENDS Integers, Sequences, FiniteSets, TLC

(* ------------------------------ bounds --------------------------------- *)
\* init_asio calls in a run, over all connections
MaxBinds == 2

(* ------------------------------ values --------------------------------- *)
Conns == {"c1", "c2"}

\* an empty lib::function
NoHandler == "none"
SocketInitHandlers == {NoHandler, "sockH"}
TlsInitHandlers == {NoHandler, "tlsH"}

\* an empty lib::shared_ptr
NullPtr == 0
NullCtx == "null"
\* what a tls_init_handler may return
TlsHandlerReturns == {NullCtx, "ctxA"}

\* an empty connection_hdl, and the handle the transport gives a connection
NoHdl == <<>>
HdlOf(c) == <<c>>
\* a reference taken through an empty m_socket
InvalidRef == -1

\* a member the constructor leaves uninitialized (raw pointer, bool)
Uninit == "uninit"
Services == {"ios"}

\* lib::error_code values of socket::error, and the two boost error
\* classes handle_timeout tells apart
Success == "success"
missing_tls_init_handler == "missing_tls_init_handler"
invalid_tls_context == "invalid_tls_context"
pass_through == "pass_through"
tls_handshake_timeout == "tls_handshake_timeout"
NoReturn == "none"

NoError == "no_error"
operation_aborted == "operation_aborted"
OtherError == "other_error"

VARIABLES
    ep_socket_init_handler,  \* endpoint::m_socket_init_handler
    ep_tls_init_handler,     \* endpoint::m_tls_init_handler
    m_socket_init_handler,   \* connection::m_socket_init_handler, per connection
    m_tls_init_handler,      \* connection::m_tls_init_handler
    m_context,               \* connection::m_context
    m_socket,                \* connection::m_socket: NullPtr or the allocation's number
    m_timer,                 \* connection::m_timer: NullPtr or the allocation's number
    m_io_service,            \* connection::m_io_service
    m_is_server,             \* connection::m_is_server
    timer_wait,              \* the async_wait of m_timer on the io_service
    hs_op,                   \* the async_handshake of m_socket on the io_service
    hs_role,                 \* the handshake_type the async_handshake was started with
    trace,                   \* the completion handlers run so far, with what each gave the callback
    attempt,                 \* number of connection::init calls
    binds,                   \* number of init_asio calls
    last_ret,                \* return value of the last init_asio
    tls_hook_calls,          \* invocations of the tls_init_handler
    sock_hook_calls,         \* invocations of the socket_init_handler
    snapshot,                \* the endpoint's handler pair when endpoint::init ran
    crashed,                 \* an empty pointer was dereferenced: nothing defined follows
    m_hdl,                   \* connection::m_hdl
    init_steps,              \* what connection::init has done, in order
    sock_hook_args,          \* the arguments of each socket_init_handler invocation
    tls_hook_args,           \* the argument of each tls_init_handler invocation
    shut_down,               \* m_socket->shutdown(ec) has closed the TLS session
    fault                    \* the dereference of an empty pointer, if one happened

vars == <<ep_socket_init_handler, ep_tls_init_handler, m_socket_init_handler,
          m_tls_init_handler, m_context, m_socket, m_timer, m_io_service,
          m_is_server, timer_wait, hs_op, hs_role, trace, attempt, binds,
          last_ret, tls_hook_calls, sock_hook_calls, snapshot, crashed,
          m_hdl, init_steps, sock_hook_args, tls_hook_args, shut_down, fault>>

epVars == <<ep_socket_init_handler, ep_tls_init_handler>>
handlerVars == <<m_socket_init_handler, m_tls_init_handler, snapshot>>
bindVars == <<m_context, m_socket, m_timer, m_io_service, m_is_server, binds,
              last_ret, tls_hook_calls>>
raceVars == <<timer_wait, hs_op, hs_role, trace, attempt, sock_hook_calls>>
hookVars == <<init_steps, sock_hook_args, tls_hook_args>>
auxVars == <<m_hdl, hookVars, shut_down, fault>>

\* the sum of a per-connection counter
RECURSIVE Total(_, _)
Total(f, S) ==
    IF S = {} THEN 0
    ELSE LET c == CHOOSE x \in S : TRUE IN f[c] + Total(f, S \ {c})

(* --------------------------- construction ------------------------------ *)
\* endpoint() and connection(): function objects and shared_ptrs are
\* default-constructed empty; m_io_service and m_is_server are not set.
Init ==
    /\ ep_socket_init_handler = NoHandler
    /\ ep_tls_init_handler = NoHandler
    /\ m_socket_init_handler = [c \in Conns |-> NoHandler]
    /\ m_tls_init_handler = [c \in Conns |-> NoHandler]
    /\ m_context = [c \in Conns |-> NullCtx]
    /\ m_socket = [c \in Conns |-> NullPtr]
    /\ m_timer = [c \in Conns |-> NullPtr]
    /\ m_io_service = [c \in Conns |-> Uninit]
    /\ m_is_server = [c \in Conns |-> Uninit]
    /\ timer_wait = [c \in Conns |-> "idle"]
    /\ hs_op = [c \in Conns |-> "idle"]
    /\ hs_role = [c \in Conns |-> "none"]
    /\ trace = [c \in Conns |-> <<>>]
    /\ attempt = [c \in Conns |-> 0]
    /\ binds = [c \in Conns |-> 0]
    /\ last_ret = [c \in Conns |-> NoReturn]
    /\ tls_hook_calls = [c \in Conns |-> 0]
    /\ sock_hook_calls = [c \in Conns |-> 0]
    /\ snapshot = [c \in Conns |-> <<>>]
    /\ crashed = FALSE
    /\ m_hdl = [c \in Conns |-> NoHdl]
    /\ init_steps = [c \in Conns |-> <<>>]
    /\ sock_hook_args = [c \in Conns |-> <<>>]
    /\ tls_hook_args = [c \in Conns |-> <<>>]
    /\ shut_down = [c \in Conns |-> FALSE]
    /\ fault = <<>>

(* ------------------------------ endpoint ------------------------------- *)
\* endpoint::set_socket_init_handler
endpoint_set_socket_init_handler(h) ==
    /\ ~crashed
    /\ ep_socket_init_handler' = h
    /\ UNCHANGED <<ep_tls_init_handler, handlerVars, bindVars, raceVars, crashed>>
    /\ UNCHANGED auxVars

\* mutant: the connections read the endpoint's tls-init handler live
endpoint_set_tls_init_handler_shared(h) ==
    /\ ~crashed
    /\ ep_tls_init_handler' = h
    /\ m_tls_init_handler' =
          [c \in Conns |-> IF snapshot[c] # <<>> THEN h ELSE m_tls_init_handler[c]]
    /\ UNCHANGED <<ep_socket_init_handler, m_socket_init_handler, snapshot,
                   bindVars, raceVars, crashed>>
    /\ UNCHANGED auxVars

\* endpoint::set_tls_init_handler
endpoint_set_tls_init_handler(h) ==
    /\ ~crashed
    /\ ep_tls_init_handler' = h
    /\ UNCHANGED <<ep_socket_init_handler, handlerVars, bindVars, raceVars, crashed>>
    /\ UNCHANGED auxVars

\* connection::set_socket_init_handler
set_socket_init_handler(c, h) ==
    m_socket_init_handler' = [m_socket_init_handler EXCEPT ![c] = h]

\* connection::set_tls_init_handler
set_tls_init_handler(c, h) ==
    m_tls_init_handler' = [m_tls_init_handler EXCEPT ![c] = h]

\* mutant: only the socket-init handler is copied
endpoint_init_socket_only(c) ==
    /\ ~crashed
    /\ m_hdl[c] # NoHdl
    /\ snapshot[c] = <<>>
    /\ set_socket_init_handler(c, ep_socket_init_handler)
    /\ snapshot' = [snapshot EXCEPT ![c] = <<ep_socket_init_handler, ep_tls_init_handler>>]
    /\ UNCHANGED <<epVars, m_tls_init_handler, bindVars, raceVars, crashed>>
    /\ UNCHANGED auxVars

\* endpoint::init(scon): called by the transport after a new connection is
\* created and has its handle, before anything else is done with it
endpoint_init(c) ==
    /\ ~crashed
    /\ m_hdl[c] # NoHdl
    /\ snapshot[c] = <<>>
    /\ set_socket_init_handler(c, ep_socket_init_handler)
    /\ set_tls_init_handler(c, ep_tls_init_handler)
    /\ snapshot' = [snapshot EXCEPT ![c] = <<ep_socket_init_handler, ep_tls_init_handler>>]
    /\ UNCHANGED <<epVars, bindVars, raceVars, crashed>>
    /\ UNCHANGED auxVars

(* ----------------------------- connection ------------------------------ *)
\* The transport drives a connection through its lifecycle once:
\* endpoint::init, init_asio (again after a failure), then init; a connection
\* that has started its handshake is neither bound again nor started again.
NotStarted(c) == attempt[c] = 0

\* mutant: the socket and the timer are allocated before the handler is
\* looked at
init_asio_alloc_first(c, service, is_server) ==
    /\ ~crashed
    /\ Total(binds, Conns) < MaxBinds
    /\ snapshot[c] # <<>>
    /\ NotStarted(c)
    /\ binds' = [binds EXCEPT ![c] = @ + 1]
    /\ m_socket' = [m_socket EXCEPT ![c] = binds[c] + 1]
    /\ m_timer' = [m_timer EXCEPT ![c] = binds[c] + 1]
    /\ IF m_tls_init_handler[c] = NoHandler
       THEN /\ last_ret' = [last_ret EXCEPT ![c] = missing_tls_init_handler]
            /\ UNCHANGED <<m_context, m_io_service, m_is_server, tls_hook_calls,
                           tls_hook_args>>
       ELSE \E ctx \in TlsHandlerReturns :
            /\ tls_hook_calls' = [tls_hook_calls EXCEPT ![c] = @ + 1]
            /\ tls_hook_args' = [tls_hook_args EXCEPT ![c] = Append(@, m_hdl[c])]
            /\ m_context' = [m_context EXCEPT ![c] = ctx]
            /\ IF ctx = NullCtx
               THEN /\ last_ret' = [last_ret EXCEPT ![c] = invalid_tls_context]
                    /\ UNCHANGED <<m_io_service, m_is_server>>
               ELSE /\ m_io_service' = [m_io_service EXCEPT ![c] = service]
                    /\ m_is_server' = [m_is_server EXCEPT ![c] = is_server]
                    /\ last_ret' = [last_ret EXCEPT ![c] = Success]
    /\ UNCHANGED <<epVars, handlerVars, raceVars, crashed>>
    /\ UNCHANGED <<m_hdl, init_steps, sock_hook_args, shut_down, fault>>

\* mutant: the context the handler returns is not tested
init_asio_no_context_check(c, service, is_server) ==
    /\ ~crashed
    /\ Total(binds, Conns) < MaxBinds
    /\ snapshot[c] # <<>>
    /\ NotStarted(c)
    /\ binds' = [binds EXCEPT ![c] = @ + 1]
    /\ IF m_tls_init_handler[c] = NoHandler
       THEN /\ last_ret' = [last_ret EXCEPT ![c] = missing_tls_init_handler]
            /\ UNCHANGED <<m_context, m_socket, m_timer, m_io_service,
                           m_is_server, tls_hook_calls, tls_hook_args>>
       ELSE \E ctx \in TlsHandlerReturns :
            /\ tls_hook_calls' = [tls_hook_calls EXCEPT ![c] = @ + 1]
            /\ tls_hook_args' = [tls_hook_args EXCEPT ![c] = Append(@, m_hdl[c])]
            /\ m_context' = [m_context EXCEPT ![c] = ctx]
            /\ m_socket' = [m_socket EXCEPT ![c] = binds[c] + 1]
            /\ m_timer' = [m_timer EXCEPT ![c] = binds[c] + 1]
            /\ m_io_service' = [m_io_service EXCEPT ![c] = service]
            /\ m_is_server' = [m_is_server EXCEPT ![c] = is_server]
            /\ last_ret' = [last_ret EXCEPT ![c] = Success]
    /\ UNCHANGED <<epVars, handlerVars, raceVars, crashed>>
    /\ UNCHANGED <<m_hdl, init_steps, sock_hook_args, shut_down, fault>>

\* mutant: the handler is called once to test it and once to use it
init_asio_hook_twice(c, service, is_server) ==
    /\ ~crashed
    /\ Total(binds, Conns) < MaxBinds
    /\ snapshot[c] # <<>>
    /\ NotStarted(c)
    /\ binds' = [binds EXCEPT ![c] = @ + 1]
    /\ IF m_tls_init_handler[c] = NoHandler
       THEN /\ last_ret' = [last_ret EXCEPT ![c] = missing_tls_init_handler]
            /\ UNCHANGED <<m_context, m_socket, m_timer, m_io_service,
                           m_is_server, tls_hook_calls, tls_hook_args>>
       ELSE \E ctx \in TlsHandlerReturns :
            /\ tls_hook_calls' = [tls_hook_calls EXCEPT ![c] = @ + 2]
            /\ tls_hook_args' = [tls_hook_args EXCEPT ![c] = @ \o <<m_hdl[c], m_hdl[c]>>]
            /\ m_context' = [m_context EXCEPT ![c] = ctx]
            /\ IF ctx = NullCtx
               THEN /\ last_ret' = [last_ret EXCEPT ![c] = invalid_tls_context]
                    /\ UNCHANGED <<m_socket, m_timer, m_io_service, m_is_server>>
               ELSE /\ m_socket' = [m_socket EXCEPT ![c] = binds[c] + 1]
                    /\ m_timer' = [m_timer EXCEPT ![c] = binds[c] + 1]
                    /\ m_io_service' = [m_io_service EXCEPT ![c] = service]
                    /\ m_is_server' = [m_is_server EXCEPT ![c] = is_server]
                    /\ last_ret' = [last_ret EXCEPT ![c] = Success]
    /\ UNCHANGED <<epVars, handlerVars, raceVars, crashed>>
    /\ UNCHANGED <<m_hdl, init_steps, sock_hook_args, shut_down, fault>>

\* mutant: the io_service and the role are recorded before the checks
init_asio_role_first(c, service, is_server) ==
    /\ ~crashed
    /\ Total(binds, Conns) < MaxBinds
    /\ snapshot[c] # <<>>
    /\ NotStarted(c)
    /\ binds' = [binds EXCEPT ![c] = @ + 1]
    /\ m_io_service' = [m_io_service EXCEPT ![c] = service]
    /\ m_is_server' = [m_is_server EXCEPT ![c] = is_server]
    /\ IF m_tls_init_handler[c] = NoHandler
       THEN /\ last_ret' = [last_ret EXCEPT ![c] = missing_tls_init_handler]
            /\ UNCHANGED <<m_context, m_socket, m_timer, tls_hook_calls,
                           tls_hook_args>>
       ELSE \E ctx \in TlsHandlerReturns :
            /\ tls_hook_calls' = [tls_hook_calls EXCEPT ![c] = @ + 1]
            /\ tls_hook_args' = [tls_hook_args EXCEPT ![c] = Append(@, m_hdl[c])]
            /\ m_context' = [m_context EXCEPT ![c] = ctx]
            /\ IF ctx = NullCtx
               THEN /\ last_ret' = [last_ret EXCEPT ![c] = invalid_tls_context]
                    /\ UNCHANGED <<m_socket, m_timer>>
               ELSE /\ m_socket' = [m_socket EXCEPT ![c] = binds[c] + 1]
                    /\ m_timer' = [m_timer EXCEPT ![c] = binds[c] + 1]
                    /\ last_ret' = [last_ret EXCEPT ![c] = Success]
    /\ UNCHANGED <<epVars, handlerVars, raceVars, crashed>>
    /\ UNCHANGED <<m_hdl, init_steps, sock_hook_args, shut_down, fault>>

\* connection::init_asio(service, is_server); the handler's return value is
\* the application's choice
init_asio(c, service, is_server) ==
    /\ ~crashed
    /\ Total(binds, Conns) < MaxBinds
    /\ snapshot[c] # <<>>
    /\ NotStarted(c)
    /\ binds' = [binds EXCEPT ![c] = @ + 1]
    /\ IF m_tls_init_handler[c] = NoHandler
       THEN /\ last_ret' = [last_ret EXCEPT ![c] = missing_tls_init_handler]
            /\ UNCHANGED <<m_context, m_socket, m_timer, m_io_service,
                           m_is_server, tls_hook_calls, tls_hook_args>>
       ELSE \E ctx \in TlsHandlerReturns :
            /\ tls_hook_calls' = [tls_hook_calls EXCEPT ![c] = @ + 1]
            /\ tls_hook_args' = [tls_hook_args EXCEPT ![c] = Append(@, m_hdl[c])]
            /\ m_context' = [m_context EXCEPT ![c] = ctx]
            /\ IF ctx = NullCtx
               THEN /\ last_ret' = [last_ret EXCEPT ![c] = invalid_tls_context]
                    /\ UNCHANGED <<m_socket, m_timer, m_io_service, m_is_server>>
               ELSE /\ m_socket' = [m_socket EXCEPT ![c] = binds[c] + 1]
                    /\ m_timer' = [m_timer EXCEPT ![c] = binds[c] + 1]
                    /\ m_io_service' = [m_io_service EXCEPT ![c] = service]
                    /\ m_is_server' = [m_is_server EXCEPT ![c] = is_server]
                    /\ last_ret' = [last_ret EXCEPT ![c] = Success]
    /\ UNCHANGED <<epVars, handlerVars, raceVars, crashed>>
    /\ UNCHANGED <<m_hdl, init_steps, sock_hook_args, shut_down, fault>>

\* connection::set_handle(hdl): the transport hands a new connection its
\* handle before the endpoint initializes it
set_handle(c, hdl) ==
    /\ ~crashed
    /\ snapshot[c] = <<>>
    /\ m_hdl[c] = NoHdl
    /\ m_hdl' = [m_hdl EXCEPT ![c] = hdl]
    /\ UNCHANGED <<epVars, handlerVars, bindVars, raceVars, crashed, hookVars,
                   shut_down, fault>>

\* mutant: the two handshake types are swapped
get_handshake_type_swapped(is_server) ==
    IF is_server = TRUE THEN "client" ELSE "server"

\* connection::get_handshake_type
get_handshake_type(is_server) ==
    IF is_server = TRUE THEN "server" ELSE "client"

\* mutant: the socket-init hook runs after the handshake has been started
init_hook_last(c) ==
    /\ ~crashed
    /\ m_socket[c] # NullPtr
    /\ NotStarted(c)
    /\ sock_hook_calls' = [sock_hook_calls EXCEPT ![c] =
                              IF m_socket_init_handler[c] # NoHandler THEN @ + 1 ELSE @]
    /\ sock_hook_args' = [sock_hook_args EXCEPT ![c] =
                             IF m_socket_init_handler[c] # NoHandler
                             THEN Append(@, [hdl |-> m_hdl[c], socket |-> m_socket[c]])
                             ELSE @]
    /\ timer_wait' = [timer_wait EXCEPT ![c] = "pending"]
    /\ hs_op' = [hs_op EXCEPT ![c] = "pending"]
    /\ hs_role' = [hs_role EXCEPT ![c] = get_handshake_type(m_is_server[c])]
    /\ init_steps' = [init_steps EXCEPT ![c] =
                         <<"expires_from_now", "async_wait", "async_handshake">>
                         \o (IF m_socket_init_handler[c] # NoHandler
                             THEN <<"socket_init_handler">> ELSE <<>>)]
    /\ attempt' = [attempt EXCEPT ![c] = @ + 1]
    /\ UNCHANGED <<epVars, handlerVars, bindVars, trace, crashed>>
    /\ UNCHANGED <<m_hdl, tls_hook_args, shut_down, fault>>

\* mutant: the handshake is started without the timer
init_handshake_only(c) ==
    /\ ~crashed
    /\ m_socket[c] # NullPtr
    /\ NotStarted(c)
    /\ sock_hook_calls' = [sock_hook_calls EXCEPT ![c] =
                              IF m_socket_init_handler[c] # NoHandler THEN @ + 1 ELSE @]
    /\ sock_hook_args' = [sock_hook_args EXCEPT ![c] =
                             IF m_socket_init_handler[c] # NoHandler
                             THEN Append(@, [hdl |-> m_hdl[c], socket |-> m_socket[c]])
                             ELSE @]
    /\ timer_wait' = timer_wait
    /\ hs_op' = [hs_op EXCEPT ![c] = "pending"]
    /\ hs_role' = [hs_role EXCEPT ![c] = get_handshake_type(m_is_server[c])]
    /\ init_steps' = [init_steps EXCEPT ![c] =
                         (IF m_socket_init_handler[c] # NoHandler
                          THEN <<"socket_init_handler">> ELSE <<>>)
                         \o <<"async_handshake">>]
    /\ attempt' = [attempt EXCEPT ![c] = @ + 1]
    /\ UNCHANGED <<epVars, handlerVars, bindVars, trace, crashed>>
    /\ UNCHANGED <<m_hdl, tls_hook_args, shut_down, fault>>

\* connection::init(callback) on a connection whose init_asio has succeeded:
\* socket-init hook, then the timer is armed, then the handshake is started
init(c) ==
    /\ ~crashed
    /\ m_socket[c] # NullPtr
    /\ NotStarted(c)
    /\ sock_hook_calls' = [sock_hook_calls EXCEPT ![c] =
                              IF m_socket_init_handler[c] # NoHandler THEN @ + 1 ELSE @]
    /\ sock_hook_args' = [sock_hook_args EXCEPT ![c] =
                             IF m_socket_init_handler[c] # NoHandler
                             THEN Append(@, [hdl |-> m_hdl[c], socket |-> m_socket[c]])
                             ELSE @]
    /\ timer_wait' = [timer_wait EXCEPT ![c] = "pending"]
    /\ hs_op' = [hs_op EXCEPT ![c] = "pending"]
    /\ hs_role' = [hs_role EXCEPT ![c] = get_handshake_type(m_is_server[c])]
    /\ init_steps' = [init_steps EXCEPT ![c] =
                         (IF m_socket_init_handler[c] # NoHandler
                          THEN <<"socket_init_handler">> ELSE <<>>)
                         \o <<"expires_from_now", "async_wait", "async_handshake">>]
    /\ attempt' = [attempt EXCEPT ![c] = @ + 1]
    /\ UNCHANGED <<epVars, handlerVars, bindVars, trace, crashed>>
    /\ UNCHANGED <<m_hdl, tls_hook_args, shut_down, fault>>

\* connection::init(callback) while m_socket and m_timer are empty: the hook
\* may run on a reference taken through the empty m_socket, and
\* m_timer->expires_from_now dereferences the empty m_timer
init_unbound(c) ==
    /\ ~crashed
    /\ m_socket[c] = NullPtr
    /\ snapshot[c] # <<>>
    /\ NotStarted(c)
    /\ \E ran \in (IF m_socket_init_handler[c] # NoHandler THEN {0, 1} ELSE {0}) :
          /\ sock_hook_calls' = [sock_hook_calls EXCEPT ![c] = @ + ran]
          /\ sock_hook_args' = [sock_hook_args EXCEPT ![c] =
                                   IF ran = 1
                                   THEN Append(@, [hdl |-> m_hdl[c], socket |-> InvalidRef])
                                   ELSE @]
          /\ init_steps' = [init_steps EXCEPT ![c] =
                               IF ran = 1 THEN <<"socket_init_handler">> ELSE <<>>]
          /\ fault' = <<[op |-> "init", con |-> c,
                         outcome |-> IF ran = 1 THEN "invalid_reference" ELSE "crash"]>>
    /\ crashed' = TRUE
    /\ UNCHANGED <<epVars, handlerVars, bindVars, timer_wait, hs_op, hs_role,
                   trace, attempt>>
    /\ UNCHANGED <<m_hdl, tls_hook_args, shut_down>>

\* mutant: the accessor tests m_socket and reports NotBound
get_raw_socket_checked(c) ==
    /\ ~crashed
    /\ IF m_socket[c] # NullPtr
       THEN UNCHANGED fault
       ELSE fault' = <<[op |-> "get_raw_socket", con |-> c, outcome |-> "not_bound"]>>
    /\ UNCHANGED <<epVars, handlerVars, bindVars, raceVars, m_hdl, hookVars,
                   shut_down, crashed>>

\* connection::get_raw_socket(): m_socket->lowest_layer().  Through an empty
\* m_socket the call dies or hands back a reference to no socket.
get_raw_socket(c) ==
    /\ ~crashed
    /\ IF m_socket[c] # NullPtr
       THEN UNCHANGED <<fault, crashed>>
       ELSE /\ \E outcome \in {"crash", "invalid_reference"} :
                  fault' = <<[op |-> "get_raw_socket", con |-> c, outcome |-> outcome]>>
            /\ crashed' = TRUE
    /\ UNCHANGED <<epVars, handlerVars, bindVars, raceVars, m_hdl, hookVars,
                   shut_down>>

\* connection::get_socket(): *m_socket
get_socket(c) ==
    /\ ~crashed
    /\ IF m_socket[c] # NullPtr
       THEN UNCHANGED <<fault, crashed>>
       ELSE /\ \E outcome \in {"crash", "invalid_reference"} :
                  fault' = <<[op |-> "get_socket", con |-> c, outcome |-> outcome]>>
            /\ crashed' = TRUE
    /\ UNCHANGED <<epVars, handlerVars, bindVars, raceVars, m_hdl, hookVars,
                   shut_down>>

\* the callback has been invoked: the connection has left the handshake phase
LeftHandshake(c) == \E i \in 1..Len(trace[c]) : trace[c][i].cb # "no_call"

\* mutant: a failed session close is passed to the handshake callback
shutdown_reports(c, ec) ==
    /\ ~crashed
    /\ LeftHandshake(c)
    /\ ~shut_down[c]
    /\ shut_down' = [shut_down EXCEPT ![c] = (ec = NoError)]
    /\ trace' = [trace EXCEPT ![c] =
                    IF ec # NoError
                    THEN Append(@, [h |-> "shutdown", error |-> ec, cb |-> pass_through])
                    ELSE @]
    /\ UNCHANGED <<epVars, handlerVars, bindVars, timer_wait, hs_op, hs_role,
                   attempt, sock_hook_calls, crashed, m_hdl, hookVars, fault>>

\* connection::shutdown(): m_socket->shutdown(ec) and nothing else; ec is
\* what the session close reports, and it dies with the call.  The transport
\* tears a connection down after its handshake phase.
shutdown(c, ec) ==
    /\ ~crashed
    /\ LeftHandshake(c)
    /\ ~shut_down[c]
    /\ shut_down' = [shut_down EXCEPT ![c] = (ec = NoError)]
    /\ UNCHANGED <<epVars, handlerVars, bindVars, raceVars, crashed, m_hdl,
                   hookVars, fault>>

(* ------------------------ io_service completions ----------------------- *)
\* the 5000 ms deadline passes: the wait completes without error and its
\* handler is queued
timer_expires(c) ==
    /\ ~crashed
    /\ timer_wait[c] = "pending"
    /\ timer_wait' = [timer_wait EXCEPT ![c] = "expired"]
    /\ UNCHANGED <<epVars, handlerVars, bindVars, hs_op, hs_role, trace,
                   attempt, sock_hook_calls, crashed>>
    /\ UNCHANGED auxVars

\* the wait completes with an error that is not operation_aborted
timer_fails(c) ==
    /\ ~crashed
    /\ timer_wait[c] = "pending"
    /\ timer_wait' = [timer_wait EXCEPT ![c] = "failed"]
    /\ UNCHANGED <<epVars, handlerVars, bindVars, hs_op, hs_role, trace,
                   attempt, sock_hook_calls, crashed>>
    /\ UNCHANGED auxVars

\* the error_code a queued wait completion carries
wait_error(w) ==
    CASE w = "expired" -> NoError
      [] w = "aborted" -> operation_aborted
      [] w = "failed"  -> OtherError

\* deadline_timer::cancel: a pending wait completes with operation_aborted;
\* a wait whose handler is already queued is not touched
cancel(w) == IF w = "pending" THEN "aborted" ELSE w

NoCall == "no_call"

\* mutant: an expired timer is not reported
timeout_callback_silent(error) ==
    IF error # NoError
    THEN IF error = operation_aborted THEN NoCall ELSE pass_through
    ELSE NoCall

\* mutant: operation_aborted is passed through like any other error
timeout_callback_abort_is_error(error) ==
    IF error # NoError THEN pass_through ELSE tls_handshake_timeout

\* mutant: every timer error but the abort is reported as a timeout
timeout_callback_all_timeout(error) ==
    IF error = operation_aborted THEN NoCall ELSE tls_handshake_timeout

\* what handle_timeout passes to the callback
timeout_callback(error) ==
    IF error # NoError
    THEN IF error = operation_aborted THEN NoCall ELSE pass_through
    ELSE tls_handshake_timeout

\* what handle_init passes to the callback
init_callback(error) ==
    IF error # NoError THEN pass_through ELSE Success

\* connection::handle_timeout(callback, error)
handle_timeout(c) ==
    /\ ~crashed
    /\ timer_wait[c] \in {"expired", "aborted", "failed"}
    /\ LET error == wait_error(timer_wait[c]) IN
          trace' = [trace EXCEPT ![c] =
                       Append(@, [h |-> "handle_timeout", error |-> error,
                                  cb |-> timeout_callback(error)])]
    /\ timer_wait' = [timer_wait EXCEPT ![c] = "idle"]
    /\ UNCHANGED <<epVars, handlerVars, bindVars, hs_op, hs_role, attempt,
                   sock_hook_calls, crashed>>
    /\ UNCHANGED auxVars

\* connection::handle_init(callback, error)
handle_init(c, error) ==
    /\ ~crashed
    /\ hs_op[c] = "pending"
    /\ timer_wait' = [timer_wait EXCEPT ![c] = cancel(@)]
    /\ trace' = [trace EXCEPT ![c] =
                    Append(@, [h |-> "handle_init", error |-> error,
                               cb |-> init_callback(error)])]
    /\ hs_op' = [hs_op EXCEPT ![c] = "done"]
    /\ UNCHANGED <<epVars, handlerVars, bindVars, hs_role, attempt,
                   sock_hook_calls, crashed>>
    /\ UNCHANGED auxVars

(* --------------------------- specification ----------------------------- *)
Next ==
    \/ \E h \in SocketInitHandlers : endpoint_set_socket_init_handler(h)
    \/ \E h \in TlsInitHandlers : endpoint_set_tls_init_handler(h)
    \/ \E c \in Conns : endpoint_init(c)
    \/ \E c \in Conns, s \in Services, b \in BOOLEAN : init_asio(c, s, b)
    \/ \E c \in Conns : init(c)
    \/ \E c \in Conns : init_unbound(c)
    \/ \E c \in Conns : set_handle(c, HdlOf(c))
    \/ \E c \in Conns : get_raw_socket(c)
    \/ \E c \in Conns : get_socket(c)
    \/ \E c \in Conns, e \in {NoError, OtherError} : shutdown(c, e)
    \/ \E c \in Conns : timer_expires(c)
    \/ \E c \in Conns : timer_fails(c)
    \/ \E c \in Conns : handle_timeout(c)
    \/ \E c \in Conns, e \in {NoError, OtherError} : handle_init(c, e)

Spec == Init /\ [][Next]_vars

\* The io_service runs every handler it has queued, and a deadline that is
\* neither cancelled nor failed passes; the peer owes nothing, so the
\* handshake operation may stay outstanding for ever.
Fairness ==
    \A c \in Conns : WF_vars(timer_expires(c)) /\ WF_vars(handle_timeout(c))

LiveSpec == Init /\ [][Next]_vars /\ Fairness

(* ------------------------------ observers ------------------------------ *)
\* the values the caller's callback has received, in order
CallbackCodes(c) ==
    LET calls == SelectSeq(trace[c], LAMBDA r : r.cb # NoCall)
    IN [i \in 1..Len(calls) |-> calls[i].cb]

Started(c) == attempt[c] = 1

\* both completions of the attempt have been delivered
BothDelivered(c) == Started(c) /\ hs_op[c] = "done" /\ timer_wait[c] = "idle"

\* which completion handler ran first
FirstHandler(c) == IF trace[c] = <<>> THEN "none" ELSE trace[c][1].h

TimeoutReported(c) ==
    \E i \in 1..Len(trace[c]) : trace[c][i].cb = tls_handshake_timeout

(* ------------------------------- claims -------------------------------- *)

\* C1: once handle_timeout and handle_init have both been delivered for an
\* attempt, the callback has been invoked exactly once.
C1_ExactlyOnce ==
    \A c \in Conns : BothDelivered(c) => Len(CallbackCodes(c)) = 1

\* C2: if the timer expiry (handle_timeout without error) is delivered
\* first, the callback receives tls_handshake_timeout and handle_init adds no
\* further invocation.
C2_TimeoutThenInert ==
    \A c \in Conns :
        (FirstHandler(c) = "handle_timeout" /\ trace[c][1].error = NoError)
            => CallbackCodes(c) = <<tls_handshake_timeout>>

\* C3: if handle_init runs before handle_timeout, the timer wait is no
\* longer pending and the callback never receives tls_handshake_timeout.
C3_NoTimeoutAfterHandshake ==
    \A c \in Conns :
        FirstHandler(c) = "handle_init"
            => timer_wait[c] # "pending" /\ ~TimeoutReported(c)

\* C4: init_asio on a connection without a tls-init handler returns
\* missing_tls_init_handler, invokes no hook and leaves m_socket and m_timer
\* as they were.
C4_MissingHandler ==
    [][\A c \in Conns :
          (binds'[c] = binds[c] + 1 /\ m_tls_init_handler[c] = NoHandler)
              => /\ last_ret'[c] = missing_tls_init_handler
                 /\ m_socket'[c] = m_socket[c]
                 /\ m_timer'[c] = m_timer[c]
                 /\ tls_hook_calls'[c] = tls_hook_calls[c]
                 /\ sock_hook_calls'[c] = sock_hook_calls[c]]_vars

C4_Witness ==
    \E c \in Conns :
        /\ binds[c] > 0
        /\ last_ret[c] = missing_tls_init_handler
        /\ m_socket[c] = NullPtr /\ m_timer[c] = NullPtr

\* C5: init_asio whose tls-init handler returns a null context returns
\* invalid_tls_context and creates neither the socket nor the timer.
C5_NullContext ==
    [][\A c \in Conns :
          (/\ binds'[c] = binds[c] + 1
           /\ tls_hook_calls'[c] = tls_hook_calls[c] + 1
           /\ m_context'[c] = NullCtx)
              => /\ last_ret'[c] = invalid_tls_context
                 /\ m_socket'[c] = m_socket[c]
                 /\ m_timer'[c] = m_timer[c]]_vars

C5_Witness ==
    \E c \in Conns :
        /\ tls_hook_calls[c] > 0
        /\ last_ret[c] = invalid_tls_context
        /\ m_socket[c] = NullPtr /\ m_timer[c] = NullPtr

\* C6: every handshake attempt started by init eventually invokes the
\* callback, also when the handshake never resolves (the process dying on an
\* empty-pointer dereference in another connection's init ends every
\* delivery); and while the handshake is unresolved, an expired timer gives
\* the callback tls_handshake_timeout.
C6_EventuallyCalled ==
    /\ \A c \in Conns : Started(c) ~> (CallbackCodes(c) # <<>> \/ crashed)
    /\ [](\A c \in Conns :
            (/\ hs_op[c] = "pending"
             /\ FirstHandler(c) = "handle_timeout"
             /\ trace[c][1].error = NoError)
                => CallbackCodes(c) = <<tls_handshake_timeout>>)

\* the handshake never resolved, the timer expired, and the callback got
\* tls_handshake_timeout
C6_Witness ==
    \E c \in Conns :
        /\ hs_op[c] = "pending"
        /\ CallbackCodes(c) = <<tls_handshake_timeout>>

\* C7: when handle_init runs first the callback receives success exactly
\* when the handshake had no error and pass_through otherwise, the timer is
\* cancelled, and no tls_handshake_timeout is reported afterward.
C7_HandshakeFirstOutcome ==
    \A c \in Conns :
        FirstHandler(c) = "handle_init"
            => /\ (trace[c][1].cb = Success) <=> (trace[c][1].error = NoError)
               /\ trace[c][1].error # NoError => trace[c][1].cb = pass_through
               /\ timer_wait[c] # "pending"
               /\ ~TimeoutReported(c)

\* C8: once the callback has been invoked the timer has no pending wait
\* and, if the attempt failed or timed out, no handshake operation is still
\* outstanding on the socket.
C8_ReleasedOnExit ==
    \A c \in Conns :
        CallbackCodes(c) # <<>>
            => /\ timer_wait[c] # "pending"
               /\ CallbackCodes(c)[1] # Success => hs_op[c] # "pending"

\* C9: the handler pair of an initialized connection is the pair the
\* endpoint held when endpoint::init ran on it, whatever the endpoint's
\* setters have done since.
C9_HandlerSnapshot ==
    \A c \in Conns :
        snapshot[c] # <<>>
            => <<m_socket_init_handler[c], m_tls_init_handler[c]>> = snapshot[c]

\* one connection keeps the pair it was given although the endpoint has
\* changed, and another, initialized later, holds the new pair
C9_Witness ==
    \E c, d \in Conns :
        /\ snapshot[c] # <<>> /\ snapshot[d] # <<>>
        /\ snapshot[c] # <<ep_socket_init_handler, ep_tls_init_handler>>
        /\ snapshot[d] = <<ep_socket_init_handler, ep_tls_init_handler>>
        /\ <<m_socket_init_handler[d], m_tls_init_handler[d]>> = snapshot[d]

\* C10: endpoint::init copies both current handlers of the endpoint, set or
\* not, and reports nothing; a missing tls-init handler shows only as
\* missing_tls_init_handler from the connection's init_asio.
C10_InitDefersFailure ==
    [][\A c \in Conns :
          /\ (snapshot[c] = <<>> /\ snapshot'[c] # <<>>)
                => /\ m_socket_init_handler'[c] = ep_socket_init_handler
                   /\ m_tls_init_handler'[c] = ep_tls_init_handler
                   /\ last_ret'[c] = last_ret[c]
                   /\ crashed' = crashed
          /\ (snapshot[c] # <<>> /\ snapshot[c][2] = NoHandler
                /\ binds'[c] = binds[c] + 1)
                => last_ret'[c] = missing_tls_init_handler]_vars

C10_Witness ==
    \E c \in Conns :
        /\ snapshot[c] # <<>> /\ snapshot[c][2] = NoHandler
        /\ m_tls_init_handler[c] = NoHandler
        /\ last_ret[c] = missing_tls_init_handler

\* C11: in every state where a handshake operation has been started,
\* m_context is non-null (it holds a context the tls-init handler returned).
C11_HandshakeHasContext ==
    \A c \in Conns : hs_op[c] # "idle" => m_context[c] # NullCtx

\* C12: init on a bound connection with a socket-init handler invokes it
\* exactly once, with the connection's handle and its socket, before
\* expires_from_now, async_wait and async_handshake; without a handler the
\* hook is skipped and the timer is armed and the handshake started all the
\* same.
C12_SocketInitHook ==
    [][\A c \in Conns :
          attempt'[c] = attempt[c] + 1
              => /\ timer_wait'[c] = "pending"
                 /\ hs_op'[c] = "pending"
                 /\ IF m_socket_init_handler[c] # NoHandler
                    THEN /\ sock_hook_calls'[c] = sock_hook_calls[c] + 1
                         /\ sock_hook_args'[c] =
                               Append(sock_hook_args[c],
                                      [hdl |-> m_hdl[c], socket |-> m_socket[c]])
                         /\ init_steps'[c] =
                               <<"socket_init_handler", "expires_from_now",
                                 "async_wait", "async_handshake">>
                    ELSE /\ sock_hook_calls'[c] = sock_hook_calls[c]
                         /\ sock_hook_args'[c] = sock_hook_args[c]
                         /\ init_steps'[c] =
                               <<"expires_from_now", "async_wait", "async_handshake">>]_vars

\* one connection started with the hook, run once on its handle and socket,
\* and another started without it
C12_Witness ==
    \E c, d \in Conns :
        /\ Started(c)
        /\ sock_hook_args[c] = <<[hdl |-> HdlOf(c), socket |-> m_socket[c]]>>
        /\ init_steps[c][1] = "socket_init_handler"
        /\ Started(d)
        /\ sock_hook_calls[d] = 0
        /\ timer_wait[d] = "pending" /\ hs_op[d] = "pending"

\* C13: the handshake init starts is a server handshake exactly when the
\* is_server recorded by the successful init_asio is true and a client
\* handshake otherwise, and the recorded role changes in no step other than
\* a successful init_asio.
C13_RoleFromBind ==
    [][\A c \in Conns :
          /\ attempt'[c] = attempt[c] + 1
                => /\ m_is_server[c] \in BOOLEAN
                   /\ hs_role'[c] = "server" <=> m_is_server[c] = TRUE
                   /\ hs_role'[c] = "client" <=> m_is_server[c] = FALSE
          /\ ToString(m_is_server'[c]) # ToString(m_is_server[c])
                => /\ binds'[c] = binds[c] + 1
                   /\ last_ret'[c] = Success
          /\ (hs_role[c] # "none" \/ attempt'[c] = attempt[c])
                => hs_role'[c] = hs_role[c]]_vars

\* a server handshake and a client handshake, each in the role given to
\* init_asio
C13_Witness ==
    \E c, d \in Conns :
        /\ Started(c) /\ m_is_server[c] = TRUE /\ hs_role[c] = "server"
        /\ Started(d) /\ m_is_server[d] = FALSE /\ hs_role[d] = "client"

\* C14: every init_asio call on a connection with a tls-init handler invokes
\* the handler exactly once, with the connection's handle; no other
\* operation (init, handle_init, handle_timeout, shutdown, the setters, the
\* accessors) invokes it.
C14_TlsHookOncePerBind ==
    [][\A c \in Conns :
          IF binds'[c] = binds[c] + 1 /\ m_tls_init_handler[c] # NoHandler
          THEN /\ tls_hook_calls'[c] = tls_hook_calls[c] + 1
               /\ tls_hook_args'[c] = Append(tls_hook_args[c], m_hdl[c])
               /\ m_hdl[c] = HdlOf(c)
          ELSE /\ tls_hook_calls'[c] = tls_hook_calls[c]
               /\ tls_hook_args'[c] = tls_hook_args[c]]_vars

\* two init_asio calls on one connection gave two invocations on its handle,
\* and the handshake that followed, with its completions and the shutdown,
\* added none
C14_Witness ==
    \E c \in Conns :
        /\ binds[c] = 2
        /\ tls_hook_args[c] = <<HdlOf(c), HdlOf(c)>>
        /\ tls_hook_calls[c] = 2
        /\ BothDelivered(c)
        /\ shut_down[c]

\* C15: a timer wait is aborted only by the cancel in handle_init, and when
\* handle_timeout is delivered with operation_aborted it returns without
\* invoking the callback: the values the callback has received are the same
\* before and after.
C15_AbortedIsNoOp ==
    [][\A c \in Conns :
          /\ (timer_wait[c] # "aborted" /\ timer_wait'[c] = "aborted")
                => /\ hs_op[c] = "pending" /\ hs_op'[c] = "done"
                   /\ trace'[c][Len(trace'[c])].h = "handle_init"
          /\ (timer_wait[c] = "aborted" /\ timer_wait'[c] # "aborted")
                => /\ trace'[c] = Append(trace[c],
                                         [h |-> "handle_timeout",
                                          error |-> operation_aborted,
                                          cb |-> NoCall])
                   /\ CallbackCodes(c)' = CallbackCodes(c)
                   /\ timer_wait'[c] = "idle"
                   /\ hs_op'[c] = hs_op[c]
                   /\ crashed' = crashed]_vars

\* the handshake resolved, the cancelled wait was delivered, and the
\* callback has the handshake's result alone
C15_Witness ==
    \E c \in Conns :
        /\ Len(trace[c]) = 2
        /\ trace[c][1].h = "handle_init"
        /\ trace[c][2] = [h |-> "handle_timeout", error |-> operation_aborted,
                          cb |-> NoCall]
        /\ Len(CallbackCodes(c)) = 1

\* C16: a shutdown step, whether the session close succeeds or fails, leaves
\* the handlers, m_context, the role, m_timer and its wait, and the result
\* of init_asio as they were and invokes no callback: the callback is
\* invoked only by steps that deliver a completion of the handshake or of
\* the timer.
C16_ShutdownSilent ==
    [][\A c \in Conns :
          /\ shut_down'[c] # shut_down[c]
                => /\ trace'[c] = trace[c]
                   /\ m_socket_init_handler'[c] = m_socket_init_handler[c]
                   /\ m_tls_init_handler'[c] = m_tls_init_handler[c]
                   /\ m_context'[c] = m_context[c]
                   /\ m_is_server'[c] = m_is_server[c]
                   /\ m_timer'[c] = m_timer[c]
                   /\ timer_wait'[c] = timer_wait[c]
                   /\ last_ret'[c] = last_ret[c]
                   /\ crashed' = crashed
          /\ trace'[c] # trace[c]
                => hs_op'[c] # hs_op[c] \/ timer_wait'[c] # timer_wait[c]]_vars

\* a connection has been shut down while its expired timer is still to be
\* delivered: the callback has the handshake's result alone
C16_Witness ==
    \E c \in Conns :
        /\ shut_down[c]
        /\ timer_wait[c] = "expired"
        /\ Len(trace[c]) = 1
        /\ m_context[c] # NullCtx

\* C17: get_raw_socket, get_socket and init test nothing before they go
\* through m_socket: every fault on record is a dereference of an empty
\* m_socket, on a connection whose init_asio was never called or last
\* returned missing_tls_init_handler or invalid_tls_context; its outcome is
\* the undefined behaviour of that dereference, never a NotBound result; and
\* init reaches it with the socket-init handler, which then runs on a
\* reference to no socket.
C17_UncheckedAccess ==
    /\ fault # <<>>
          => LET f == fault[1] IN
             /\ crashed
             /\ f.op \in {"get_raw_socket", "get_socket", "init"}
             /\ f.outcome \in {"crash", "invalid_reference"}
             /\ m_socket[f.con] = NullPtr
             /\ \/ binds[f.con] = 0
                \/ last_ret[f.con] \in {missing_tls_init_handler, invalid_tls_context}
             /\ (f.op = "init" /\ f.outcome = "invalid_reference")
                   => /\ m_socket_init_handler[f.con] # NoHandler
                      /\ sock_hook_args[f.con] =
                            <<[hdl |-> m_hdl[f.con], socket |-> InvalidRef]>>
    /\ crashed => fault # <<>>

\* get_raw_socket after an init_asio that returned invalid_tls_context
C17_Witness ==
    /\ fault # <<>>
    /\ fault[1].op = "get_raw_socket"
    /\ last_ret[fault[1].con] = invalid_tls_context
    /\ m_socket[fault[1].con] = NullPtr

\* how often init did x, and when
Count(s, x) == Cardinality({i \in 1..Len(s) : s[i] = x})
Pos(s, x) == CHOOSE i \in 1..Len(s) : s[i] = x

\* the wait armed by init has not been delivered to handle_timeout yet
WaitOutstanding(c) == timer_wait[c] # "idle"

C19_TimerErrorPassThrough ==
    \A c \in Conns :
        /\ \A i \in 1..Len(trace[c]) :
              LET r == trace[c][i] IN
              /\ (r.h = "handle_timeout" /\ r.error \notin {NoError, operation_aborted})
                    => r.cb = pass_through
              /\ r.cb = tls_handshake_timeout
                    => r.h = "handle_timeout" /\ r.error = NoError
        /\ \A i \in 1..Len(CallbackCodes(c)) :
              CallbackCodes(c)[i] \in {Success, pass_through, tls_handshake_timeout}

\* the timer's wait failed while the handshake was unresolved and the
\* callback got pass_through
C19_Witness ==
    \E c \in Conns :
        /\ trace[c] = <<[h |-> "handle_timeout", error |-> OtherError,
                         cb |-> pass_through]>>
        /\ CallbackCodes(c) = <<pass_through>>

\* C20: an init_asio that fails leaves m_is_server, m_io_service, m_socket
\* and m_timer as they were; if it fails for the missing handler m_context
\* is left too, and if it fails for a null context m_context is null
\* afterwards.  An init_asio that succeeds sets all four, and no other step
\* changes any of them.
C20_BindFrame ==
    [][\A c \in Conns :
          LET four_unchanged ==
                  /\ ToString(m_is_server'[c]) = ToString(m_is_server[c])
                  /\ m_io_service'[c] = m_io_service[c]
                  /\ m_socket'[c] = m_socket[c]
                  /\ m_timer'[c] = m_timer[c]
          IN
          IF binds'[c] = binds[c] + 1
          THEN /\ last_ret'[c] \in {missing_tls_init_handler, invalid_tls_context, Success}
               /\ last_ret'[c] = missing_tls_init_handler
                     => four_unchanged /\ m_context'[c] = m_context[c]
               /\ last_ret'[c] = invalid_tls_context
                     => four_unchanged /\ m_context'[c] = NullCtx
               /\ last_ret'[c] = Success
                     => /\ m_is_server'[c] \in BOOLEAN
                        /\ m_io_service'[c] \in Services
                        /\ m_socket'[c] \notin {NullPtr, m_socket[c]}
                        /\ m_timer'[c] \notin {NullPtr, m_timer[c]}
                        /\ m_context'[c] # NullCtx
          ELSE four_unchanged]_vars

\* an init_asio that failed for a null context after one that succeeded: the
\* four members are those of the first call, and m_context is null
C20_Witness ==
    \E c \in Conns :
        /\ binds[c] = 2
        /\ last_ret[c] = invalid_tls_context
        /\ m_context[c] = NullCtx
        /\ m_socket[c] = 1 /\ m_timer[c] = 1
        /\ m_io_service[c] \in Services
        /\ ToString(m_is_server[c]) # ToString(Uninit)
        /\ attempt[c] = 0

====
